---- MODULE Spec2Model ----
(***************************************************************************)
(* A model of pybbi's BBIFile handle (bbi.pyx): life cycle of the handle,  *)
(* query validation, and the array materializers array_query_full and      *)
(* array_query_summarized with the two aggregators they drive.             *)
(*                                                                         *)
(* Numbers that the program holds as C doubles are modelled as exact       *)
(* rationals <<kind, num, den>>: kind "num" is num/den in lowest terms,    *)
(* kind "nan" is the NaN fill value, kind "sqrt" is the square root of     *)
(* num/den.  Coordinates are integers.  Output arrays are sequences, so    *)
(* numpy's out[k] is out[k+1] here.                                        *)
(***************************************************************************)
EXTENDS Integers, Sequences, FiniteSets, TLC

(***************************************************************************)
(* Bounds of the model.                                                    *)
(***************************************************************************)
\* size in bases of chromosome "chr1" of the modelled files
ChromSize1 ==
    4
\* how far a requested start or end may lie outside [0, chromSize]
Pad ==
    2
\* largest number of bins a caller asks for
MaxBins ==
    3

(***************************************************************************)
(* Values.                                                                 *)
(***************************************************************************)
Max(a, b) ==
    IF a >= b THEN a ELSE b

Min(a, b) ==
    IF a <= b THEN a ELSE b

Abs(a) ==
    IF a < 0 THEN -a ELSE a

RECURSIVE Gcd(_, _)
Gcd(a, b) ==
    IF b = 0 THEN a ELSE Gcd(b, a % b)

\* the rational n/d (d # 0) in lowest terms with a positive denominator
Frac(n, d) ==
    LET g == Gcd(Abs(n), Abs(d))
        s == IF d < 0 THEN -1 ELSE 1
    IN  <<"num", (s * n) \div g, (s * d) \div g>>

Num(n) ==
    <<"num", n, 1>>

NaN ==
    <<"nan", 0, 0>>

FAdd(x, y) ==
    Frac(x[2] * y[3] + y[2] * x[3], x[3] * y[3])

FMul(x, y) ==
    Frac(x[2] * y[2], x[3] * y[3])

FLess(x, y) ==
    x[2] * y[3] < y[2] * x[3]

\* conversion of a non-negative double to an unsigned integer (truncation)
FTrunc(x) ==
    x[2] \div x[3]

(***************************************************************************)
(* The files a handle may be opened on.                                    *)
(***************************************************************************)
ChromNames ==
    <<"chr1", "chr2">>

\* a name that is in no file
UnknownChrom ==
    "chrU"

ChromSizeOf(name) ==
    IF name = "chr1" THEN ChromSize1 ELSE ChromSize1 - 1

Iv(s, e, v) ==
    [start |-> s, end |-> e, val |-> Num(v)]

\* the stored records of chr1: sorted by start, non-overlapping
Chr1Data ==
    { <<>>,
      << Iv(1, ChromSize1 - 1, 2) >>,
      << Iv(0, 1, 1), Iv(1, 2, 1) >>,
      << Iv(0, 2, 1), Iv(2, ChromSize1, 2) >>,
      << Iv(1, 2, 2), Iv(ChromSize1 - 1, ChromSize1, 1) >>,
      << Iv(0, ChromSize1, 1) >> }

Chr2Data ==
    << Iv(1, ChromSize1 - 1, 1) >>

\* the stored features of chr1 of the bigBed file: they may overlap
Chr1Features ==
    << Iv(0, 2, 1), Iv(1, ChromSize1 - 1, 1) >>

Files ==
    { [is_bigwig |-> TRUE, chr1 |-> d, chr2 |-> Chr2Data, levels |-> lv] :
        d \in Chr1Data, lv \in { <<>>, <<2>> } }
    \cup { [is_bigwig |-> FALSE, chr1 |-> Chr1Features, chr2 |-> Chr2Data,
             levels |-> <<>>] }
    \cup { [is_bigwig |-> TRUE, chr1 |-> <<Iv(0, 1, 1), Iv(2, ChromSize1, 2)>>,
             chr2 |-> Chr2Data, levels |-> <<2, 4>>] }

StoredIntervals(f, chrom) ==
    IF chrom = "chr1" THEN f.chr1
    ELSE IF chrom = "chr2" THEN f.chr2
    ELSE <<>>

(***************************************************************************)
(* The library calls the handle makes (UCSC kent library).                 *)
(***************************************************************************)
\* bbiChromSize: the size of the named chromosome, 0 when the file has none
bbiChromSize(f, chromName) ==
    IF \E k \in 1..Len(ChromNames) : ChromNames[k] = chromName
    THEN ChromSizeOf(chromName)
    ELSE 0

RECURSIVE ClipList(_, _, _, _)
ClipList(ivs, k, s, e) ==
    IF k > Len(ivs) THEN <<>>
    ELSE LET cs == Max(ivs[k].start, s)
             ce == Min(ivs[k].end, e)
         IN  IF cs < ce
             THEN <<[start |-> cs, end |-> ce, val |-> ivs[k].val]>>
                      \o ClipList(ivs, k + 1, s, e)
             ELSE ClipList(ivs, k + 1, s, e)

\* bigWigIntervalQuery: the stored records that overlap [s, e), clipped to it
bigWigIntervalQuery(f, chromName, s, e) ==
    ClipList(StoredIntervals(f, chromName), 1, s, e)

Depth(feats, p) ==
    Cardinality({k \in 1..Len(feats) : feats[k].start <= p /\ p < feats[k].end})

RECURSIVE CoverageRuns(_, _, _, _)
CoverageRuns(feats, cuts, p, e) ==
    IF p >= e THEN <<>>
    ELSE LET q == CHOOSE x \in cuts : x > p /\ \A y \in cuts : y > p => x <= y
         IN  IF Depth(feats, p) > 0
             THEN <<[start |-> p, end |-> q, val |-> Num(Depth(feats, p))]>>
                      \o CoverageRuns(feats, cuts, q, e)
             ELSE CoverageRuns(feats, cuts, q, e)

\* bigBedCoverageIntervals: the runs of constant coverage depth > 0 in [s, e)
bigBedCoverageIntervals(f, chromName, s, e) ==
    LET feats == StoredIntervals(f, chromName)
        cuts  == {e} \cup {x \in s..e : \E k \in 1..Len(feats) :
                               feats[k].start = x \/ feats[k].end = x}
    IN  CoverageRuns(feats, cuts, s, e)

(***************************************************************************)
(* numpy slice assignment out[a:b] = v on a one-dimensional array.         *)
(***************************************************************************)
\* a slice bound as numpy reads it: negative counts from the end, then clamp
NormIdx(i, n) ==
    IF i < 0 THEN Max(i + n, 0) ELSE Min(i, n)

\* the 0-based positions that out[a:b] names in an array of length n
SliceIdx(n, a, b) ==
    {i \in 0..(n - 1) : NormIdx(a, n) <= i /\ i < NormIdx(b, n)}

SliceAssign(out, a, b, v) ==
    [i \in 1..Len(out) |->
        IF (i - 1) \in SliceIdx(Len(out), a, b) THEN v ELSE out[i]]

(***************************************************************************)
(* BBIFile: the fetcher strategy and the clipped query range.              *)
(***************************************************************************)
fetchIntervals(f, chromName, s, e) ==
    IF f.is_bigwig
    THEN bigWigIntervalQuery(f, chromName, s, e)
    ELSE bigBedCoverageIntervals(f, chromName, s, e)

ValidStart(start) ==
    IF start < 0 THEN 0 ELSE start

ValidEnd(end, chromSize) ==
    IF end > chromSize THEN chromSize ELSE end

(***************************************************************************)
(* Zoom levels and their precomputed summary records.                      *)
(***************************************************************************)
ZeroElement ==
    [validCount |-> 0, minVal |-> Num(0), maxVal |-> Num(0),
     sumData |-> Num(0), sumSquares |-> Num(0)]

\* what bbiIntervalSlice / bbiSummarySlice accumulate for one source record
AddPiece(acc, weight, vmin, vmax, sum, sumSq) ==
    [validCount |-> FTrunc(FAdd(Num(acc.validCount), weight)),
     minVal     |-> IF FLess(vmin, acc.minVal) THEN vmin ELSE acc.minVal,
     maxVal     |-> IF FLess(acc.maxVal, vmax) THEN vmax ELSE acc.maxVal,
     sumData    |-> FAdd(acc.sumData, sum),
     sumSquares |-> FAdd(acc.sumSquares, sumSq)]

rangeIntersection(s1, e1, s2, e2) ==
    Min(e1, e2) - Max(s1, s2)

RECURSIVE SumPieces(_, _, _, _, _)
SumPieces(ivs, j, baseStart, baseEnd, acc) ==
    IF j > Len(ivs) \/ ~(ivs[j].start < baseEnd) THEN acc
    ELSE LET overlap == rangeIntersection(baseStart, baseEnd,
                                          ivs[j].start, ivs[j].end)
             w       == Num(overlap)
         IN  SumPieces(ivs, j + 1, baseStart, baseEnd,
                 IF overlap > 0
                 THEN AddPiece(acc, w, ivs[j].val, ivs[j].val,
                               FMul(ivs[j].val, w),
                               FMul(FMul(ivs[j].val, ivs[j].val), w))
                 ELSE acc)

\* bbiIntervalSlice on the list that starts at record k: the element, and
\* whether the slice holds any data
bbiIntervalSlice(baseStart, baseEnd, ivs, k, el) ==
    IF k > Len(ivs) THEN [got |-> FALSE, el |-> el]
    ELSE LET seed == [ZeroElement EXCEPT !.minVal = ivs[k].val,
                                         !.maxVal = ivs[k].val]
             acc  == SumPieces(ivs, k, baseStart, baseEnd, seed)
         IN  IF acc.validCount > 0
             THEN [got |-> TRUE, el |-> acc]
             ELSE [got |-> FALSE, el |-> el]

\* Advance that also skips a record ending one base after baseStart
RECURSIVE Advance_OneTooFar(_, _, _)
Advance_OneTooFar(recs, k, baseStart) ==
    IF k <= Len(recs) /\ recs[k].end <= baseStart + 1
    THEN Advance_OneTooFar(recs, k + 1, baseStart)
    ELSE k

\* the cursor after skipping the records that end at or before baseStart
RECURSIVE Advance(_, _, _)
Advance(recs, k, baseStart) ==
    IF k <= Len(recs) /\ recs[k].end <= baseStart
    THEN Advance(recs, k + 1, baseStart)
    ELSE k

\* the record of a window, if the window holds data
WindowRecord(ws, we, r) ==
    IF r.got THEN <<[start |-> ws, end |-> we, el |-> r.el]>> ELSE <<>>

RECURSIVE ZoomWindows(_, _, _, _)
ZoomWindows(ivs, w, reduction, size) ==
    IF (w - 1) * reduction >= size THEN <<>>
    ELSE WindowRecord((w - 1) * reduction, Min(w * reduction, size),
             bbiIntervalSlice((w - 1) * reduction, Min(w * reduction, size),
                              ivs, Advance(ivs, 1, (w - 1) * reduction),
                              ZeroElement))
         \o ZoomWindows(ivs, w + 1, reduction, size)

\* the records of one zoom level of a chromosome: one record per window of
\* `reduction` bases that holds data
ZoomRecords(f, chromName, reduction) ==
    ZoomWindows(fetchIntervals(f, chromName, 0, bbiChromSize(f, chromName)),
                1, reduction, bbiChromSize(f, chromName))

RECURSIVE OverlapList(_, _, _, _)
OverlapList(recs, k, s, e) ==
    IF k > Len(recs) THEN <<>>
    ELSE (IF recs[k].start < e /\ recs[k].end > s THEN <<recs[k]>> ELSE <<>>)
             \o OverlapList(recs, k + 1, s, e)

\* bbiSummariesInRegion: the records of the level that overlap [s, e)
bbiSummariesInRegion(f, reduction, chromName, s, e) ==
    OverlapList(ZoomRecords(f, chromName, reduction), 1, s, e)

\* bbiBestZoom: the index of the level with the greatest reductionLevel that
\* is <= desiredReduction, 0 (NULL) when there is none or desiredReduction <= 1
bbiBestZoom(levels, desiredReduction) ==
    IF desiredReduction <= 1 THEN 0
    ELSE LET ok == {k \in 1..Len(levels) : levels[k] <= desiredReduction}
         IN  IF ok = {} THEN 0
             ELSE CHOOSE k \in ok : \A j \in ok : levels[j] <= levels[k]

RECURSIVE SumSummaries(_, _, _, _, _)
SumSummaries(recs, j, baseStart, baseEnd, acc) ==
    IF j > Len(recs) \/ ~(recs[j].start < baseEnd) THEN acc
    ELSE LET overlap == rangeIntersection(baseStart, baseEnd,
                                          recs[j].start, recs[j].end)
             factor  == Frac(overlap, recs[j].end - recs[j].start)
             r       == recs[j].el
         IN  SumSummaries(recs, j + 1, baseStart, baseEnd,
                 IF overlap > 0
                 THEN AddPiece(acc, FMul(Num(r.validCount), factor),
                               r.minVal, r.maxVal,
                               FMul(r.sumData, factor),
                               FMul(r.sumSquares, factor))
                 ELSE acc)

\* bbiSummarySlice on the list that starts at record k
bbiSummarySlice(baseStart, baseEnd, recs, k, el) ==
    IF k > Len(recs) THEN [got |-> FALSE, el |-> el]
    ELSE LET seed == [ZeroElement EXCEPT !.minVal = recs[k].el.minVal,
                                         !.maxVal = recs[k].el.maxVal]
             acc  == SumSummaries(recs, k, baseStart, baseEnd, seed)
         IN  IF acc.validCount > 0
             THEN [got |-> TRUE, el |-> acc]
             ELSE [got |-> FALSE, el |-> el]

(***************************************************************************)
(* The two aggregators.                                                    *)
(***************************************************************************)
\* one call of the interval fetcher or of the zoom-record lookup: the
\* chromosome and the range it was handed
Lookup(f, chromName, validStart, validEnd) ==
    [chrom |-> chromName, start |-> validStart, end |-> validEnd,
     size |-> bbiChromSize(f, chromName)]

\* FullBins without "if end1 == baseStart: end1 = baseStart + 1"
RECURSIVE FullBins_NoForcedEnd(_, _, _, _, _, _)
FullBins_NoForcedEnd(ivs, i, nbins, start, baseCount, st) ==
    IF i >= nbins THEN st
    ELSE LET baseEnd == start + (baseCount * (i + 1)) \div nbins
             k       == Advance(ivs, st.cursor, st.baseStart)
             r       == bbiIntervalSlice(st.baseStart, baseEnd, ivs, k,
                                         st.elements[i + 1])
         IN  FullBins_NoForcedEnd(ivs, i + 1, nbins, start, baseCount,
                 [baseStart |-> baseEnd,
                  cursor    |-> k,
                  elements  |-> [st.elements EXCEPT ![i + 1] = r.el],
                  result    |-> st.result \/ r.got,
                  slices    |-> Append(st.slices,
                                   [lo |-> st.baseStart, hi |-> baseEnd, from |-> k,
                                    baseEnd |-> baseEnd]),
                  lookups   |-> st.lookups])

\* FullBins with the end of a bin rounded up instead of down
RECURSIVE FullBins_RoundedUp(_, _, _, _, _, _)
FullBins_RoundedUp(ivs, i, nbins, start, baseCount, st) ==
    IF i >= nbins THEN st
    ELSE LET baseEnd == start + (baseCount * (i + 1) + nbins - 1) \div nbins
             end1    == IF baseEnd = st.baseStart THEN st.baseStart + 1 ELSE baseEnd
             k       == Advance(ivs, st.cursor, st.baseStart)
             r       == bbiIntervalSlice(st.baseStart, end1, ivs, k,
                                         st.elements[i + 1])
         IN  FullBins_RoundedUp(ivs, i + 1, nbins, start, baseCount,
                 [baseStart |-> baseEnd,
                  cursor    |-> k,
                  elements  |-> [st.elements EXCEPT ![i + 1] = r.el],
                  result    |-> st.result \/ r.got,
                  slices    |-> Append(st.slices,
                                   [lo |-> st.baseStart, hi |-> end1, from |-> k,
                                    baseEnd |-> baseEnd]),
                  lookups   |-> st.lookups])

\* bins i..nbins-1 of _bbiSummariesFromFull; st holds baseStart, the cursor,
\* the elements, the result flag and the slices made so far: for each bin its
\* baseStart (lo), the end of the window it slices (hi), the cursor the
\* slice starts from and its computed baseEnd
RECURSIVE FullBins(_, _, _, _, _, _)
FullBins(ivs, i, nbins, start, baseCount, st) ==
    IF i >= nbins THEN st
    ELSE LET baseEnd == start + (baseCount * (i + 1)) \div nbins
             end1    == IF baseEnd = st.baseStart THEN st.baseStart + 1 ELSE baseEnd
             k       == Advance(ivs, st.cursor, st.baseStart)
             r       == bbiIntervalSlice(st.baseStart, end1, ivs, k,
                                         st.elements[i + 1])
         IN  FullBins(ivs, i + 1, nbins, start, baseCount,
                 [baseStart |-> baseEnd,
                  cursor    |-> k,
                  elements  |-> [st.elements EXCEPT ![i + 1] = r.el],
                  result    |-> st.result \/ r.got,
                  slices    |-> Append(st.slices,
                                   [lo |-> st.baseStart, hi |-> end1, from |-> k,
                                    baseEnd |-> baseEnd]),
                  lookups   |-> st.lookups])

bbiSummariesFromFull(f, chromName, start, end, validStart, validEnd, elements, nbins) ==
    LET ivs == fetchIntervals(f, chromName, validStart, validEnd)
        st0 == [baseStart |-> start, cursor |-> 1, elements |-> elements,
                result |-> FALSE, slices |-> <<>>,
                lookups |-> <<Lookup(f, chromName, validStart, validEnd)>>]
    IN  IF ivs # <<>>
        THEN FullBins(ivs, 0, nbins, start, end - start, st0)
        ELSE st0

RECURSIVE ZoomBins(_, _, _, _, _, _)
ZoomBins(recs, i, nbins, start, baseCount, st) ==
    IF i >= nbins THEN st
    ELSE LET baseEnd == start + (baseCount * (i + 1)) \div nbins
             k       == Advance(recs, st.cursor, st.baseStart)
             r       == bbiSummarySlice(st.baseStart, baseEnd, recs, k,
                                        st.elements[i + 1])
         IN  ZoomBins(recs, i + 1, nbins, start, baseCount,
                 [baseStart |-> baseEnd,
                  cursor    |-> k,
                  elements  |-> [st.elements EXCEPT ![i + 1] = r.el],
                  result    |-> st.result \/ r.got,
                  slices    |-> Append(st.slices,
                                   [lo |-> st.baseStart, hi |-> baseEnd, from |-> k,
                                    baseEnd |-> baseEnd]),
                  lookups   |-> st.lookups])

bbiSummariesFromZoom(f, reduction, chromName, start, end, validStart, validEnd, elements, nbins) ==
    LET st0  == [baseStart |-> start, cursor |-> 1, elements |-> elements,
                 result |-> FALSE, slices |-> <<>>,
                 lookups |-> <<Lookup(f, chromName, validStart, validEnd)>>]
        recs == bbiSummariesInRegion(f, reduction, chromName, validStart, validEnd)
    IN  IF bbiChromSize(f, chromName) = 0 THEN [st0 EXCEPT !.lookups = <<>>]
        ELSE IF recs # <<>>
        THEN ZoomBins(recs, 0, nbins, start, end - start, st0)
        ELSE st0

(***************************************************************************)
(* array_query_summarized                                                  *)
(***************************************************************************)
\* BBI_SUMMARY_TYPES with one more key
SummaryTypes_WithMedian ==
    {"mean", "max", "min", "cov", "std", "sum", "median"}

SummaryTypes ==
    {"mean", "max", "min", "cov", "std", "sum"}

IsSquare(n) ==
    \E r \in 0..n : r * r = n

Root(n) ==
    CHOOSE r \in 0..n : r * r = n

\* sqrt of a rational: exact when it is rational, NaN when negative
Sqrt(x) ==
    IF x[2] < 0 THEN NaN
    ELSE IF IsSquare(x[2]) /\ IsSquare(x[3]) THEN Frac(Root(x[2]), Root(x[3]))
    ELSE <<"sqrt", x[2], x[3]>>

var_from_sums(sum, sumSquares, n) ==
    LET var == FAdd(sumSquares, FMul(Num(-1), FMul(FMul(sum, sum), Frac(1, n))))
    IN  IF n > 1 THEN FMul(var, Frac(1, n - 1)) ELSE var

\* Statistic with the branches of 'max' and 'min' exchanged
Statistic_MinMaxSwapped(el, summaryType, covFactor) ==
    IF summaryType = "mean" THEN FMul(el.sumData, Frac(1, el.validCount))
    ELSE IF summaryType = "max" THEN el.minVal
    ELSE IF summaryType = "min" THEN el.maxVal
    ELSE IF summaryType = "cov" THEN FMul(covFactor, Num(el.validCount))
    ELSE IF summaryType = "std"
    THEN Sqrt(var_from_sums(el.sumData, el.sumSquares, el.validCount))
    ELSE IF summaryType = "sum" THEN el.sumData
    ELSE <<"RuntimeError", 0, 0>>

\* the value an element with validCount > 0 gives for the statistic
Statistic(el, summaryType, covFactor) ==
    IF summaryType = "mean" THEN FMul(el.sumData, Frac(1, el.validCount))
    ELSE IF summaryType = "max" THEN el.maxVal
    ELSE IF summaryType = "min" THEN el.minVal
    ELSE IF summaryType = "cov" THEN FMul(covFactor, Num(el.validCount))
    ELSE IF summaryType = "std"
    THEN Sqrt(var_from_sums(el.sumData, el.sumSquares, el.validCount))
    ELSE IF summaryType = "sum" THEN el.sumData
    ELSE <<"RuntimeError", 0, 0>>

\* the representative location of bin i
BinLoc(start, i, stepSize) ==
    start + i * stepSize

\* the bins the fill loop overwrites with the out-of-bounds value
OobBins(result, nbins, start, stepSize, validStart, validEnd) ==
    IF result
    THEN {i \in 0..(nbins - 1) :
            BinLoc(start, i, stepSize) < validStart
            \/ BinLoc(start, i, stepSize) >= validEnd}
    ELSE {}

\* PickZoom that asks for a reduction of stepSize instead of stepSize // 2
PickZoom_NoHalving(levels, stepSize, exact) ==
    IF ~exact
    THEN bbiBestZoom(levels, IF stepSize < 0 THEN 0 ELSE stepSize)
    ELSE 0

\* PickZoom that asks for a zoom level whatever exact is
PickZoom_IgnoreExact(levels, stepSize, exact) ==
    bbiBestZoom(levels, IF stepSize \div 2 < 0 THEN 0 ELSE stepSize \div 2)

\* the zoom level the query reads: an index into the level list, 0 for none
PickZoom(levels, stepSize, exact) ==
    IF ~exact
    THEN bbiBestZoom(levels, IF stepSize \div 2 < 0 THEN 0 ELSE stepSize \div 2)
    ELSE 0

\* the aggregator the query runs: from the zoom level, or from the full data
Aggregate(f, zoomObj, chromName, start, end, validStart, validEnd, nbins) ==
    IF zoomObj # 0
    THEN bbiSummariesFromZoom(f, f.levels[zoomObj], chromName, start, end,
             validStart, validEnd, [i \in 1..nbins |-> ZeroElement], nbins)
    ELSE bbiSummariesFromFull(f, chromName, start, end,
             validStart, validEnd, [i \in 1..nbins |-> ZeroElement], nbins)

\* FillBins without the validCount test: an empty bin gets 0.0 / 0
FillBins_NoValidGate(out, agg, idx, oob, summaryType, covFactor) ==
    [i \in 1..Len(out) |->
        IF ~agg.result THEN out[i]
        ELSE IF (i - 1) \in idx THEN oob
        ELSE IF agg.elements[i].validCount > 0
        THEN Statistic(agg.elements[i], summaryType, covFactor)
        ELSE NaN]

\* the fill loop over the bins, given what the aggregator produced
FillBins(out, agg, idx, oob, summaryType, covFactor) ==
    [i \in 1..Len(out) |->
        IF ~agg.result THEN out[i]
        ELSE IF (i - 1) \in idx THEN oob
        ELSE IF agg.elements[i].validCount > 0
        THEN Statistic(agg.elements[i], summaryType, covFactor)
        ELSE out[i]]

\* zerodiv: end = start, so "nbins / (end - start)" raises ZeroDivisionError
\* before the fill loop and the function is left at that line, before
\* freeMem(elements); live is the set of allocations not freed at the exit
SummarizedQuery(out, agg, idx, zoomObj, zerodiv, oob, summaryType, covFactor) ==
    [out     |-> IF zerodiv THEN out
                 ELSE FillBins(out, agg, idx, oob, summaryType, covFactor),
     oobIdx  |-> IF zerodiv THEN {} ELSE idx,
     path    |-> IF zoomObj # 0 THEN "zoom" ELSE "full_data",
     result  |-> agg.result,
     zerodiv |-> zerodiv,
     level   |-> zoomObj,
     elements |-> agg.elements,
     slices  |-> agg.slices,
     live    |-> IF zerodiv THEN {"elements"} ELSE {},
     lookups |-> agg.lookups]

SummarizedWith(out, nbins, agg, zoomObj, start, end, validStart, validEnd, oob, summaryType) ==
    SummarizedQuery(out, agg,
        OobBins(agg.result, nbins, start, (end - start) \div nbins,
                validStart, validEnd),
        zoomObj, end - start = 0, oob, summaryType,
        IF end - start = 0 THEN NaN ELSE Frac(nbins, end - start))

SummarizedAt(out, nbins, f, chromName, start, end, validStart, validEnd, oob, summaryType, zoomObj) ==
    SummarizedWith(out, nbins,
        Aggregate(f, zoomObj, chromName, start, end, validStart, validEnd, nbins),
        zoomObj, start, end, validStart, validEnd, oob, summaryType)

array_query_summarized(out, nbins, f, chromName, start, end, chromSize, oob, summaryType, exact) ==
    SummarizedAt(out, nbins, f, chromName, start, end,
        ValidStart(start), ValidEnd(end, chromSize), oob, summaryType,
        PickZoom(f.levels, (end - start) \div nbins, exact))

(***************************************************************************)
(* array_query_full                                                        *)
(***************************************************************************)
\* the walk over the fetched list that writes one slice per run of adjacent
\* records of equal value; st is (firstTime, saveStart, prevEnd, saveVal)
RECURSIVE FillRuns(_, _, _, _, _)
FillRuns(out, ivs, k, st, start) ==
    IF k > Len(ivs)
    THEN IF ~st.firstTime
         THEN SliceAssign(out, st.saveStart - start, st.prevEnd - start, st.saveVal)
         ELSE out
    ELSE LET iv == ivs[k]
         IN  IF st.firstTime
             THEN FillRuns(out, ivs, k + 1,
                           [firstTime |-> FALSE, saveStart |-> iv.start,
                            prevEnd |-> iv.end, saveVal |-> iv.val], start)
             ELSE IF ~(iv.start = st.prevEnd /\ iv.val = st.saveVal)
             THEN FillRuns(SliceAssign(out, st.saveStart - start,
                                       st.prevEnd - start, st.saveVal),
                           ivs, k + 1,
                           [firstTime |-> FALSE, saveStart |-> iv.start,
                            prevEnd |-> iv.end, saveVal |-> iv.val], start)
             ELSE FillRuns(out, ivs, k + 1, [st EXCEPT !.prevEnd = iv.end], start)

\* FillRuns without the write of the run still pending after the last record
RECURSIVE FillRuns_NoFinalFlush(_, _, _, _, _)
FillRuns_NoFinalFlush(out, ivs, k, st, start) ==
    IF k > Len(ivs)
    THEN out
    ELSE LET iv == ivs[k]
         IN  IF st.firstTime
             THEN FillRuns_NoFinalFlush(out, ivs, k + 1,
                           [firstTime |-> FALSE, saveStart |-> iv.start,
                            prevEnd |-> iv.end, saveVal |-> iv.val], start)
             ELSE IF ~(iv.start = st.prevEnd /\ iv.val = st.saveVal)
             THEN FillRuns_NoFinalFlush(SliceAssign(out, st.saveStart - start,
                                       st.prevEnd - start, st.saveVal),
                           ivs, k + 1,
                           [firstTime |-> FALSE, saveStart |-> iv.start,
                            prevEnd |-> iv.end, saveVal |-> iv.val], start)
             ELSE FillRuns_NoFinalFlush(out, ivs, k + 1,
                                        [st EXCEPT !.prevEnd = iv.end], start)

\* FillValid that never writes the last pending run
FillValid_NoFinalFlush(out, ivs, start) ==
    FillRuns_NoFinalFlush(out, ivs, 1,
             [firstTime |-> TRUE, saveStart |-> -1, prevEnd |-> -1,
              saveVal |-> Num(-1)], start)

\* FillValid with the slices taken at absolute positions ("- start" dropped)
FillValid_AbsoluteIndex(out, ivs, start) ==
    FillRuns(out, ivs, 1,
             [firstTime |-> TRUE, saveStart |-> -1, prevEnd |-> -1,
              saveVal |-> Num(-1)], 0)

FillValid(out, ivs, start) ==
    FillRuns(out, ivs, 1,
             [firstTime |-> TRUE, saveStart |-> -1, prevEnd |-> -1,
              saveVal |-> Num(-1)], start)

\* OobFullIdx with the right-hand slice taken at validEnd instead of
\* validEnd - start
OobFullIdx_AbsoluteEnd(n, start, end, validStart, validEnd) ==
    (IF start < validStart THEN SliceIdx(n, 0, validStart - start) ELSE {})
    \cup (IF end >= validEnd THEN SliceIdx(n, validEnd, n) ELSE {})

\* the positions the out-of-bounds pass writes
OobFullIdx(n, start, end, validStart, validEnd) ==
    (IF start < validStart THEN SliceIdx(n, 0, validStart - start) ELSE {})
    \cup (IF end >= validEnd THEN SliceIdx(n, validEnd - start, n) ELSE {})

\* the array after the call, and the positions its out-of-bounds pass wrote
array_query_full(out, nbins, f, chromName, start, end, chromSize, oob) ==
    LET validStart == ValidStart(start)
        validEnd   == ValidEnd(end, chromSize)
        ivs        == fetchIntervals(f, chromName, validStart, validEnd)
        filled     == FillValid(out, ivs, start)
        idx        == OobFullIdx(Len(out), start, end, validStart, validEnd)
    IN  [out     |-> [i \in 1..Len(out) |->
                         IF (i - 1) \in idx THEN oob ELSE filled[i]],
         oobIdx  |-> idx,
         path    |-> "base",
         result  |-> ivs # <<>>,
         zerodiv |-> FALSE,
         level   |-> 0,
         elements |-> <<>>,
         slices  |-> <<>>,
         live    |-> {},
         lookups |-> <<Lookup(f, chromName, validStart, validEnd)>>]

(***************************************************************************)
(* What an operation gives back.                                           *)
(***************************************************************************)
NoQuery ==
    [out |-> <<>>, oobIdx |-> {}, path |-> "none", result |-> FALSE,
     zerodiv |-> FALSE, level |-> 0, elements |-> <<>>, slices |-> <<>>,
     live |-> {}, lookups |-> <<>>]

\* the operation raised the named error
Raise(e) ==
    [kind |-> "raise", err |-> e, val |-> <<>>, q |-> NoQuery]

\* the operation raised the named error after the work recorded in q
RaiseAfter(e, q) ==
    [kind |-> "raise", err |-> e, val |-> <<>>, q |-> q]

\* the operation returned val; q is the array query it ran, if any
Return(val, q) ==
    [kind |-> "return", err |-> "", val |-> val, q |-> q]

\* a read through a NULL pointer: the process dies, or goes on with garbage
Crash ==
    [kind |-> "crash", err |-> "", val |-> <<>>, q |-> NoQuery]

(***************************************************************************)
(* BBIFile.close, __exit__, __dealloc__                                    *)
(***************************************************************************)
\* bbiFileClose(&self.bbi): frees the file object and sets the pointer NULL
bbiFileClose(b, r) ==
    [bbi |-> "NULL", released |-> r + 1]

\* close without the test for an already released handle
close_NoGuard(b, r) ==
    bbiFileClose(b, r)

close(b, r) ==
    IF b # "NULL" THEN bbiFileClose(b, r) ELSE [bbi |-> b, released |-> r]

exit(b, r) ==
    close(b, r)

dealloc(b, r) ==
    IF b # "NULL" THEN bbiFileClose(b, r) ELSE [bbi |-> b, released |-> r]

(***************************************************************************)
(* BBIFile.fetch                                                           *)
(***************************************************************************)
\* ResolveEnd without the resolution of a negative end
ResolveEnd_Keep(end, chromSize) ==
    end

\* "if end < 0: end = chromSize"
ResolveEnd(end, chromSize) ==
    IF end < 0 THEN chromSize ELSE end

\* CheckQuery with "start >= chromSize" for "start > chromSize"
CheckQuery_StartAtEnd(chromSize, start, end) ==
    IF chromSize = 0 THEN "ChromosomeNotFound"
    ELSE IF start >= chromSize THEN "StartExceedsChromosome"
    ELSE IF ResolveEnd(end, chromSize) - start < 0 THEN "NegativeLength"
    ELSE ""

\* the coordinate checks of fetch and fetch_intervals, in the order the code
\* makes them: the error raised, "" when the query is valid
CheckQuery(chromSize, start, end) ==
    IF chromSize = 0 THEN "ChromosomeNotFound"
    ELSE IF start > chromSize THEN "StartExceedsChromosome"
    ELSE IF ResolveEnd(end, chromSize) - start < 0 THEN "NegativeLength"
    ELSE ""

\* OutLength with "bins < 0" for "bins < 1"
OutLength_NegativeOnly(bins, length) ==
    IF bins < 0 THEN length ELSE bins

\* the length of the array fetch allocates
OutLength(bins, length) ==
    IF bins < 1 THEN length ELSE bins

Filled(n, v) ==
    [i \in 1..n |-> v]

\* propagate: whether the build lets an exception raised inside a cdef void
\* function reach the caller (otherwise it is printed and swallowed)
fetch(b, f, chrom, start, end, bins, missing, oob, summary, exact, propagate) ==
    IF b = "NULL" THEN Raise("ResourceClosed")
    ELSE LET chromSize == bbiChromSize(f, chrom)
             end1      == ResolveEnd(end, chromSize)
             length    == end1 - start
             nbins     == OutLength(bins, length)
             out       == Filled(nbins, missing)
         IN  IF CheckQuery(chromSize, start, end) # ""
             THEN Raise(CheckQuery(chromSize, start, end))
             ELSE IF ~(bins < 1)
             THEN IF summary \notin SummaryTypes
                  THEN Raise("InvalidSummaryType")
                  ELSE LET q == array_query_summarized(out, nbins, f, chrom,
                                    start, end1, chromSize, oob, summary, exact)
                       IN  IF q.zerodiv /\ propagate
                           THEN RaiseAfter("ZeroDivisionError", q)
                           ELSE Return(q.out, q)
             ELSE LET q == array_query_full(out, nbins, f, chrom,
                               start, end1, chromSize, oob)
                  IN  Return(q.out, q)

(***************************************************************************)
(* BBIFile.fetch_intervals                                                 *)
(***************************************************************************)
\* bigBedIntervalQuery: the stored features that overlap [s, e), unclipped
bigBedIntervalQuery(f, chromName, s, e) ==
    OverlapList(StoredIntervals(f, chromName), 1, s, e)

\* the records BigWigIntervalIterator / BigBedIntervalIterator hold
IteratorRecords(f, chromName, validStart, validEnd) ==
    IF f.is_bigwig
    THEN bigWigIntervalQuery(f, chromName, validStart, validEnd)
    ELSE bigBedIntervalQuery(f, chromName, validStart, validEnd)

fetch_intervals(b, f, chrom, start, end, iterator) ==
    IF b = "NULL" THEN Raise("ResourceClosed")
    ELSE LET chromSize == bbiChromSize(f, chrom)
             end1      == ResolveEnd(end, chromSize)
         IN  IF CheckQuery(chromSize, start, end) # ""
             THEN Raise(CheckQuery(chromSize, start, end))
             ELSE Return(IteratorRecords(f, chrom, ValidStart(start),
                                         ValidEnd(end1, chromSize)),
                         [NoQuery EXCEPT !.lookups =
                             <<Lookup(f, chrom, ValidStart(start),
                                      ValidEnd(end1, chromSize))>>])

(***************************************************************************)
(* BBIFile.fetch_summaries and get_zoom_table                              *)
(***************************************************************************)
get_zoom_table(f, zoom, chromName, start, end) ==
    LET chromSize == bbiChromSize(f, chromName)
    IN  IF chromSize = 0 THEN Raise("ChromosomeNotFound")
        ELSE Return(bbiSummariesInRegion(f, f.levels[zoom + 1], chromName,
                        ValidStart(start), ValidEnd(end, chromSize)),
                    [NoQuery EXCEPT !.lookups =
                        <<Lookup(f, chromName, ValidStart(start),
                                 ValidEnd(end, chromSize))>>])

fetch_summaries(b, f, chrom, start, end, zoom) ==
    IF b = "NULL" THEN Raise("ResourceClosed")
    ELSE IF zoom < 0 \/ zoom >= Len(f.levels) THEN Raise("ZoomLevelNotFound")
    ELSE get_zoom_table(f, zoom, chrom, start, end)

(***************************************************************************)
(* BBIFile.best_zoom                                                       *)
(***************************************************************************)
\* Python's // on integers: the floor of a / b, b # 0
FloorDiv(a, b) ==
    IF b > 0 THEN a \div b ELSE (-a) \div (-b)

\* the index of the first entry of self.zooms equal to binsize
ZoomIndex(levels, binsize) ==
    (CHOOSE k \in 1..Len(levels) :
        levels[k] = binsize /\ \A j \in 1..(k - 1) : levels[j] # binsize) - 1

\* a read of self.bbi.levelList through a NULL self.bbi: the process dies,
\* or the read yields garbage and the method returns None or an index
NullReadOutcomes ==
    {Crash, Return(<<>>, NoQuery), Return(<<0>>, NoQuery)}

\* whether the call reads a field of self.bbi while self.bbi is NULL
best_zoom_null_read(b, bins) ==
    b = "NULL" /\ bins # 0

\* the method; None is <<>>; ub is the outcome of a read through NULL
best_zoom(b, f, chrom, start, end, bins, ub) ==
    IF bins = 0 THEN Raise("ZeroDivisionError")
    ELSE IF b = "NULL" THEN ub
    ELSE LET stepSize  == FloorDiv(end - start, bins)
             zoomLevel == IF stepSize \div 2 < 0 THEN 0 ELSE stepSize \div 2
             zoomObj   == bbiBestZoom(f.levels, zoomLevel)
         IN  IF zoomObj = 0 THEN Return(<<>>, NoQuery)
             ELSE Return(<<ZoomIndex(f.levels, f.levels[zoomObj])>>, NoQuery)

(***************************************************************************)
(* BBIFile.stackup                                                         *)
(***************************************************************************)
RowLengths(rows) ==
    {rows[i].end - rows[i].start : i \in 1..Len(rows)}

\* row i of the loop: the error it raises ("" for none), the row it fills
\* and the array query it ran
stackup_row(f, row, bins, missing, oob, summary, exact, propagate) ==
    LET chromSize == bbiChromSize(f, row.chrom)
        out       == Filled(bins, missing)
    IN  IF chromSize = 0
        THEN [err |-> "ChromosomeNotFound", out |-> out, q |-> NoQuery]
        ELSE IF row.start > chromSize
        THEN [err |-> "StartExceedsChromosome", out |-> out, q |-> NoQuery]
        ELSE IF bins < 1
        THEN LET q == array_query_full(out, bins, f, row.chrom, row.start,
                                       row.end, chromSize, oob)
             IN  [err |-> "", out |-> q.out, q |-> q]
        ELSE IF summary \notin SummaryTypes
        THEN [err |-> "InvalidSummaryType", out |-> out, q |-> NoQuery]
        ELSE LET q == array_query_summarized(out, bins, f, row.chrom,
                          row.start, row.end, chromSize, oob, summary, exact)
             IN  [err |-> IF q.zerodiv /\ propagate THEN "ZeroDivisionError"
                          ELSE "",
                  out |-> q.out, q |-> q]

\* what the first k rows of the loop left behind: the fetcher calls they
\* made, in order, and the allocations they did not free
RECURSIVE RowsRun(_, _)
RowsRun(rowq, k) ==
    IF k = 0 THEN NoQuery
    ELSE LET before == RowsRun(rowq, k - 1)
         IN  [before EXCEPT !.lookups = before.lookups \o rowq[k].lookups,
                            !.live = before.live \cup rowq[k].live]

\* StackWidth that takes the first row's length whatever bins is
StackWidth_AlwaysLength(bins, length) ==
    length

\* "if bins < 1: bins = length": the number of columns of the matrix, and
\* the value of bins the row loop sees
StackWidth(bins, length) ==
    IF bins < 1 THEN length ELSE bins

stackup(b, f, rows, bins, missing, oob, summary, exact, propagate) ==
    IF b = "NULL" THEN Raise("ResourceClosed")
    ELSE IF bins < 0 /\ Cardinality(RowLengths(rows)) # 1
    THEN Raise("UnequalWindowLengths")
    ELSE LET length == rows[1].end - rows[1].start
             n      == Len(rows)
             nbins  == StackWidth(bins, length)
             RowAt(i) == stackup_row(f, rows[i], nbins, missing, oob, summary,
                                   exact, propagate)
             bad    == {i \in 1..n : RowAt(i).err # ""}
             first  == CHOOSE i \in bad : \A j \in bad : i <= j
             rowq   == [i \in 1..n |-> RowAt(i).q]
         IN  IF nbins < 0 THEN Raise("NegativeDimensions")
             ELSE IF bad # {}
             THEN RaiseAfter(RowAt(first).err, RowsRun(rowq, first))
             ELSE Return([i \in 1..n |-> RowAt(i).out], RowsRun(rowq, n))

(***************************************************************************)
(* The metadata readers: chromsizes, zooms, info, schema, read_autosql     *)
(***************************************************************************)
chromsizes(b, f) ==
    IF b = "NULL" THEN Raise("ResourceClosed")
    ELSE Return([k \in 1..Len(ChromNames) |->
                    <<ChromNames[k], ChromSizeOf(ChromNames[k])>>], NoQuery)

zooms(b, f) ==
    IF b = "NULL" THEN Raise("ResourceClosed")
    ELSE Return(f.levels, NoQuery)

info(b, f) ==
    IF b = "NULL" THEN Raise("ResourceClosed")
    ELSE Return(<<Len(f.levels), Len(chromsizes(b, f).val)>>, NoQuery)

schema(b, f) ==
    IF b = "NULL" THEN Raise("ResourceClosed")
    ELSE Return(IF f.is_bigwig THEN <<"bedGraph">> ELSE <<"bed">>, NoQuery)

read_autosql(b, f) ==
    IF b = "NULL" THEN Raise("ResourceClosed")
    ELSE Return(IF f.is_bigwig THEN <<>> ELSE <<"bed">>, NoQuery)

(***************************************************************************)
(* BigWigIntervalIterator and BigBedIntervalIterator                       *)
(***************************************************************************)
\* the interval queries allocate the records they return out of the lm the
\* caller hands them, here the iterator's own ("bbi" would be the memory of
\* the file object, which closing frees)
IntervalArena ==
    "lm"

\* the caller holds no iterator
NoIterator ==
    [made |-> FALSE, is_bigwig |-> TRUE, chrom |-> "", valid_start |-> 0,
     valid_end |-> 0, interval |-> <<>>, arena |-> "", yielded |-> <<>>,
     stopped |-> FALSE]

\* __init__: interval is the list not yet yielded (the pointer self.interval
\* and what follows it); yielded and stopped record what __next__ has done
IntervalIterator(f, chromName, validStart, validEnd) ==
    [made |-> TRUE, is_bigwig |-> f.is_bigwig, chrom |-> chromName,
     valid_start |-> validStart, valid_end |-> validEnd,
     interval |-> IteratorRecords(f, chromName, validStart, validEnd),
     arena |-> IntervalArena, yielded |-> <<>>, stopped |-> FALSE]

\* the tuple __next__ builds from a record
IntervalTuple(i, r) ==
    IF i.is_bigwig THEN <<i.chrom, r.start, r.end, r.val>>
    ELSE <<i.chrom, r.start, r.end>>

\* whether __next__ reads memory that closing the file has freed
next_stale_read(i, b) ==
    i.interval # <<>> /\ i.arena = "bbi" /\ b = "NULL"

\* __next__ without "self.interval = self.interval.next"
next_NoAdvance(i, b, ub) ==
    IF i.interval = <<>>
    THEN [ret |-> Raise("StopIteration"), it |-> [i EXCEPT !.stopped = TRUE]]
    ELSE [ret |-> Return(IntervalTuple(i, Head(i.interval)), NoQuery),
          it  |-> [i EXCEPT !.yielded = Append(i.yielded,
                                            IntervalTuple(i, Head(i.interval)))]]

\* __next__: what it gives back and the iterator afterwards; ub is the
\* outcome of a read of freed memory
next(i, b, ub) ==
    IF i.interval = <<>>
    THEN [ret |-> Raise("StopIteration"), it |-> [i EXCEPT !.stopped = TRUE]]
    ELSE IF next_stale_read(i, b)
    THEN [ret |-> ub, it |-> [i EXCEPT !.interval = Tail(i.interval)]]
    ELSE [ret |-> Return(IntervalTuple(i, Head(i.interval)), NoQuery),
          it  |-> [i EXCEPT !.interval = Tail(i.interval),
                            !.yielded = Append(i.yielded,
                                            IntervalTuple(i, Head(i.interval)))]]

(***************************************************************************)
(* The older interface: BbiFile.fetch over the module function _fetch       *)
(***************************************************************************)
\* the most releases of one file object a behaviour of BbiFile may make
MaxReleases ==
    3

\* what a pointer to a freed file object can give when it is read: the process
\* dies, or the freed memory still holds the file object
StaleReadOutcomes ==
    {"crash", "stale"}

\* _fetch receives the pointer by value, so "bbiFileClose(&bbi)" before a
\* validation error frees the caller's file object and sets only _fetch's own
\* copy to NULL: the caller's pointer is left pointing at the freed object
FetchFailed(e, r) ==
    [ret |-> Raise(e), bbi |-> "dangling", released |-> r + 1]

\* _fetch on a pointer b to a live (or, by luck, still readable) file object:
\* what it gives back, the caller's pointer and the release count afterwards
_fetch(b, r, f, chrom, start, end, bins, missing, oob, summary, propagate) ==
    LET chromSize == bbiChromSize(f, chrom)
        end1      == ResolveEnd(end, chromSize)
        length    == end1 - start
        nbins     == OutLength(bins, length)
        out       == Filled(nbins, missing)
    IN  IF CheckQuery(chromSize, start, end) # ""
        THEN FetchFailed(CheckQuery(chromSize, start, end), r)
        ELSE IF ~(bins < 1)
        THEN IF summary \notin SummaryTypes
             THEN FetchFailed("InvalidSummaryType", r)
             ELSE LET q == array_query_summarized(out, nbins, f, chrom,
                               start, end1, chromSize, oob, summary, FALSE)
                  IN  [ret |-> IF q.zerodiv /\ propagate
                               THEN RaiseAfter("ZeroDivisionError", q)
                               ELSE Return(q.out, q),
                       bbi |-> b, released |-> r]
        ELSE LET q == array_query_full(out, nbins, f, chrom,
                          start, end1, chromSize, oob)
             IN  [ret |-> Return(q.out, q), bbi |-> b, released |-> r]

\* BbiFile.fetch; ub is the outcome of reading a freed file object
BbiFile_fetch(b, r, f, chrom, start, end, bins, missing, oob, summary, propagate, ub) ==
    IF b = "NULL"
    THEN [ret |-> Raise("ResourceClosed"), bbi |-> b, released |-> r]
    ELSE IF b = "dangling" /\ ub = "crash"
    THEN [ret |-> Crash, bbi |-> b, released |-> r]
    ELSE _fetch(b, r, f, chrom, start, end, bins, missing, oob, summary,
                propagate)

\* BbiFile.close, which __exit__ and __dealloc__ call: it frees whatever a
\* non-NULL pointer points at, a second time if a failed fetch freed it
BbiFile_close(b, r) ==
    IF b # "NULL" THEN bbiFileClose(b, r) ELSE [bbi |-> b, released |-> r]

VARIABLES
    file,       \* the contents of the file the handle was opened on
    bbi,        \* the handle's pointer: "open", "NULL", or (BbiFile only)
                \* "dangling" when it points at a freed file object
    alive,      \* FALSE once the object is deallocated or the process died
    released,   \* how many times the underlying bbiFile was freed
    nullRead,   \* whether the last call read a field of a NULL self.bbi
    call,       \* the last operation and its arguments
    ret,        \* what the last operation gave back
    it          \* the interval iterator the caller holds, if any

vars ==
    <<file, bbi, alive, released, nullRead, call, ret, it>>

(***************************************************************************)
(* The arguments callers pass.                                             *)
(***************************************************************************)
ChromArgs ==
    {"chr1", "chr2", UnknownChrom}

StartArgs ==
    (-Pad)..(ChromSize1 + 1)

EndArgs ==
    (-Pad)..(ChromSize1 + Pad)

BinsArgs ==
    (-1)..MaxBins

SummaryArgs ==
    SummaryTypes \cup {"median"}

\* zoom level indices passed to fetch_summaries
ZoomArgs ==
    (-1)..1

Row(c, s, e) ==
    [chrom |-> c, start |-> s, end |-> e]

\* the first query of a stack
FirstRows ==
    {Row(c, s, e) : c \in {"chr1", "chr2"}, s \in {-1, 0},
                    e \in {-1, 2, ChromSize1 + 1}}

\* the second query of a two-row stack
SecondRows ==
    {Row("chr1", 0, 2), Row("chr1", 1, ChromSize1 + 2), Row("chr2", 0, -1),
     Row(UnknownChrom, 0, 2), Row("chr1", ChromSize1 + 1, ChromSize1 + 3)}

StackRows ==
    {<<r>> : r \in FirstRows} \cup {<<r, t>> : r \in FirstRows, t \in SecondRows}

StackBins ==
    (-1)..2

StackSummaries ==
    {"mean", "median"}

MissingArg ==
    Num(0)

OobArg ==
    NaN

NoCall ==
    [op |-> "open"]

QueryOps ==
    {"fetch", "stackup", "fetch_intervals", "fetch_summaries", "best_zoom",
     "chromsizes", "zooms", "info", "schema", "read_autosql"}

LifecycleOps ==
    {"close", "__exit__", "__dealloc__"}

\* the caller has finished with the previous call and may make the next one
Idle ==
    call = NoCall

Init ==
    /\ file \in Files
    /\ bbi = "open"
    /\ alive = TRUE
    /\ released = 0
    /\ nullRead = FALSE
    /\ call = NoCall
    /\ ret = Return(<<>>, NoQuery)
    /\ it = NoIterator

Close ==
    /\ alive
    /\ Idle
    /\ bbi' = close(bbi, released).bbi
    /\ released' = close(bbi, released).released
    /\ call' = [op |-> "close", closedBefore |-> (bbi = "NULL"), raised |-> FALSE]
    /\ ret' = Return(<<>>, NoQuery)
    /\ UNCHANGED <<it, file, alive, nullRead>>

\* leaving a with block, normally or because the body raised
Exit ==
    /\ alive
    /\ Idle
    /\ \E bodyRaised \in BOOLEAN :
         call' = [op |-> "__exit__", closedBefore |-> (bbi = "NULL"),
                  raised |-> bodyRaised]
    /\ bbi' = exit(bbi, released).bbi
    /\ released' = exit(bbi, released).released
    /\ ret' = Return(<<>>, NoQuery)
    /\ UNCHANGED <<it, file, alive, nullRead>>

Dealloc ==
    /\ alive
    /\ Idle
    /\ alive' = FALSE
    /\ bbi' = dealloc(bbi, released).bbi
    /\ released' = dealloc(bbi, released).released
    /\ call' = [op |-> "__dealloc__", closedBefore |-> (bbi = "NULL"),
                 raised |-> FALSE]
    /\ ret' = Return(<<>>, NoQuery)
    /\ UNCHANGED <<it, file, nullRead>>

\* the caller drops what the last call gave back
Drop ==
    /\ alive
    /\ ~Idle
    /\ call' = NoCall
    /\ ret' = Return(<<>>, NoQuery)
    /\ nullRead' = FALSE
    /\ UNCHANGED <<it, file, bbi, alive, released>>

Fetch ==
    /\ alive
    /\ Idle
    /\ \E chrom \in ChromArgs, start \in StartArgs, end \in EndArgs,
          bins \in BinsArgs, summary \in SummaryArgs, exact \in BOOLEAN,
          propagate \in BOOLEAN :
         /\ call' = [op |-> "fetch", chrom |-> chrom, start |-> start,
                     end |-> end, bins |-> bins, missing |-> MissingArg,
                     oob |-> OobArg, summary |-> summary, exact |-> exact]
         /\ ret' = fetch(bbi, file, chrom, start, end, bins, MissingArg, OobArg,
                         summary, exact, propagate)
    /\ UNCHANGED <<it, file, bbi, alive, released, nullRead>>

FetchIntervals ==
    /\ alive
    /\ Idle
    /\ \E chrom \in ChromArgs, start \in StartArgs, end \in EndArgs,
          iterator \in BOOLEAN :
         /\ call' = [op |-> "fetch_intervals", chrom |-> chrom,
                     start |-> start, end |-> end, iterator |-> iterator]
         /\ ret' = fetch_intervals(bbi, file, chrom, start, end, iterator)
    /\ UNCHANGED <<it, file, bbi, alive, released, nullRead>>

FetchSummaries ==
    /\ alive
    /\ Idle
    /\ \E chrom \in ChromArgs, start \in StartArgs, end \in EndArgs,
          zoom \in ZoomArgs :
         /\ call' = [op |-> "fetch_summaries", chrom |-> chrom,
                     start |-> start, end |-> end, zoom |-> zoom]
         /\ ret' = fetch_summaries(bbi, file, chrom, start, end, zoom)
    /\ UNCHANGED <<it, file, bbi, alive, released, nullRead>>

BestZoom ==
    /\ alive
    /\ Idle
    /\ \E chrom \in ChromArgs, start \in StartArgs, end \in EndArgs,
          bins \in BinsArgs, ub \in NullReadOutcomes :
         /\ call' = [op |-> "best_zoom", chrom |-> chrom, start |-> start,
                     end |-> end, bins |-> bins]
         /\ ret' = best_zoom(bbi, file, chrom, start, end, bins, ub)
         /\ nullRead' = best_zoom_null_read(bbi, bins)
         /\ alive' = (ret'.kind # "crash")
    /\ UNCHANGED <<it, file, bbi, released>>

Stackup ==
    /\ alive
    /\ Idle
    /\ \E rows \in StackRows, bins \in StackBins, summary \in StackSummaries,
          exact \in BOOLEAN, propagate \in BOOLEAN :
         /\ call' = [op |-> "stackup", rows |-> rows, bins |-> bins,
                     missing |-> MissingArg, oob |-> OobArg,
                     summary |-> summary, exact |-> exact]
         /\ ret' = stackup(bbi, file, rows, bins, MissingArg, OobArg,
                           summary, exact, propagate)
    /\ UNCHANGED <<it, file, bbi, alive, released, nullRead>>

\* the properties chromsizes, zooms, info, schema and the method read_autosql
\* Chromsizes that closes the file once it has read the sizes, as the
\* one-shot functions of the older interface do
Chromsizes_Closing ==
    /\ alive
    /\ Idle
    /\ call' = [op |-> "chromsizes"]
    /\ ret' = chromsizes(bbi, file)
    /\ bbi' = "NULL"
    /\ UNCHANGED <<it, file, alive, released, nullRead>>

Chromsizes ==
    /\ alive
    /\ Idle
    /\ call' = [op |-> "chromsizes"]
    /\ ret' = chromsizes(bbi, file)
    /\ UNCHANGED <<it, file, bbi, alive, released, nullRead>>

Zooms ==
    /\ alive
    /\ Idle
    /\ call' = [op |-> "zooms"]
    /\ ret' = zooms(bbi, file)
    /\ UNCHANGED <<it, file, bbi, alive, released, nullRead>>

Info ==
    /\ alive
    /\ Idle
    /\ call' = [op |-> "info"]
    /\ ret' = info(bbi, file)
    /\ UNCHANGED <<it, file, bbi, alive, released, nullRead>>

Schema ==
    /\ alive
    /\ Idle
    /\ call' = [op |-> "schema"]
    /\ ret' = schema(bbi, file)
    /\ UNCHANGED <<it, file, bbi, alive, released, nullRead>>

ReadAutosql ==
    /\ alive
    /\ Idle
    /\ call' = [op |-> "read_autosql"]
    /\ ret' = read_autosql(bbi, file)
    /\ UNCHANGED <<it, file, bbi, alive, released, nullRead>>

Next ==
    \/ Close
    \/ Exit
    \/ Dealloc
    \/ Drop
    \/ Fetch
    \/ FetchIntervals
    \/ FetchSummaries
    \/ BestZoom
    \/ Stackup
    \/ Chromsizes
    \/ Zooms
    \/ Info
    \/ Schema
    \/ ReadAutosql

Spec ==
    Init /\ [][Next]_vars

(***************************************************************************)
(* The older interface as a state machine of its own.                      *)
(***************************************************************************)
BbiFileStarts ==
    {-1, 0, ChromSize1 + 1}

BbiFileEnds ==
    {-1, 0, 2}

BbiFileBins ==
    {-1, 1}

BbiFileSummaries ==
    {"mean", "median"}

BbiFile_Fetch ==
    /\ alive
    /\ Idle
    /\ released < MaxReleases
    /\ \E chrom \in ChromArgs, start \in BbiFileStarts, end \in BbiFileEnds,
          bins \in BbiFileBins, summary \in BbiFileSummaries,
          propagate \in BOOLEAN, ub \in StaleReadOutcomes :
         LET r == BbiFile_fetch(bbi, released, file, chrom, start, end, bins,
                                MissingArg, OobArg, summary, propagate, ub)
         IN  /\ call' = [op |-> "fetch", chrom |-> chrom, start |-> start,
                         end |-> end, bins |-> bins, missing |-> MissingArg,
                         oob |-> OobArg, summary |-> summary, exact |-> FALSE,
                         bbiBefore |-> bbi, releasedBefore |-> released]
             /\ ret' = r.ret
             /\ bbi' = r.bbi
             /\ released' = r.released
             /\ alive' = (r.ret.kind # "crash")
    /\ UNCHANGED <<it, file, nullRead>>

\* close(), or __exit__, which only calls it
BbiFile_Close ==
    /\ alive
    /\ Idle
    /\ released < MaxReleases
    /\ bbi' = BbiFile_close(bbi, released).bbi
    /\ released' = BbiFile_close(bbi, released).released
    /\ call' = [op |-> "close", closedBefore |-> (bbi = "NULL"), raised |-> FALSE]
    /\ ret' = Return(<<>>, NoQuery)
    /\ UNCHANGED <<it, file, alive, nullRead>>

BbiFile_Dealloc ==
    /\ alive
    /\ Idle
    /\ released < MaxReleases
    /\ alive' = FALSE
    /\ bbi' = BbiFile_close(bbi, released).bbi
    /\ released' = BbiFile_close(bbi, released).released
    /\ call' = [op |-> "__dealloc__", closedBefore |-> (bbi = "NULL"),
                 raised |-> FALSE]
    /\ ret' = Return(<<>>, NoQuery)
    /\ UNCHANGED <<it, file, nullRead>>

BbiFileNext ==
    \/ BbiFile_Fetch
    \/ BbiFile_Close
    \/ BbiFile_Dealloc
    \/ Drop

SpecBbiFile ==
    Init /\ [][BbiFileNext]_vars

(***************************************************************************)
(* A caller that iterates over fetched intervals.                          *)
(***************************************************************************)
IterStarts ==
    {-1, 0, 1}

IterEnds ==
    {-1, 2, ChromSize1 + 1}

\* fetch_intervals(..., iterator=True): the caller keeps the iterator
MakeIterator ==
    /\ alive
    /\ Idle
    /\ \E chrom \in {"chr1", "chr2"}, start \in IterStarts, end \in IterEnds :
         LET r == fetch_intervals(bbi, file, chrom, start, end, TRUE)
             chromSize == bbiChromSize(file, chrom)
         IN  /\ call' = [op |-> "fetch_intervals", chrom |-> chrom,
                         start |-> start, end |-> end, iterator |-> TRUE]
             /\ ret' = r
             /\ it' = IF r.kind = "return"
                       THEN IntervalIterator(file, chrom, ValidStart(start),
                                ValidEnd(ResolveEnd(end, chromSize), chromSize))
                       ELSE it
    /\ UNCHANGED <<file, bbi, alive, released, nullRead>>

\* next(it)
IterNext ==
    /\ alive
    /\ Idle
    /\ it.made
    /\ \E ub \in NullReadOutcomes :
         /\ ret' = next(it, bbi, ub).ret
         /\ it' = next(it, bbi, ub).it
    /\ call' = [op |-> "next", closedBefore |-> (bbi = "NULL"),
                 stoppedBefore |-> it.stopped, before |-> it]
    /\ nullRead' = next_stale_read(it, bbi)
    /\ alive' = (ret'.kind # "crash")
    /\ UNCHANGED <<file, bbi, released>>

IteratorNext ==
    \/ MakeIterator
    \/ IterNext
    \/ Close
    \/ Drop

SpecIterator ==
    Init /\ [][IteratorNext]_vars

(***************************************************************************)
(* Base-resolution fetches over every short list of records.               *)
(***************************************************************************)
\* the most records a chromosome of these files stores
MaxRecs ==
    3

\* the values a record may carry
RecValues ==
    {1, 2}

\* the records that start at or after base lo
Records(lo) ==
    {Iv(a, b, v) : <<a, b>> \in {p \in (lo..(ChromSize1 - 1)) \X (1..ChromSize1) :
                                    p[1] < p[2]},
                   v \in RecValues}

\* the lists of at most n records at or after base lo, sorted and
\* non-overlapping
RECURSIVE ListsFrom(_, _)
ListsFrom(lo, n) ==
    IF n = 0 THEN {<<>>}
    ELSE {<<>>} \cup UNION {{<<r>> \o l : l \in ListsFrom(r.end, n - 1)} :
                              r \in Records(lo)}

\* every list of at most MaxRecs records, sorted and non-overlapping
RecordLists ==
    ListsFrom(0, MaxRecs)

\* bigWig files without zoom levels holding such a list on chr1
RecordFiles ==
    {[is_bigwig |-> TRUE, chr1 |-> l, chr2 |-> Chr2Data, levels |-> <<>>] :
        l \in RecordLists}

RecordInit ==
    /\ file \in RecordFiles
    /\ bbi = "open"
    /\ alive = TRUE
    /\ released = 0
    /\ nullRead = FALSE
    /\ call = NoCall
    /\ ret = Return(<<>>, NoQuery)
    /\ it = NoIterator

BaseStarts ==
    {-1, 0, 1}

BaseEnds ==
    {-1, ChromSize1 - 1, ChromSize1 + 1}

\* fetch at base resolution (bins = -1) on chr1
FetchBases ==
    /\ alive
    /\ Idle
    /\ \E start \in BaseStarts, end \in BaseEnds :
         /\ call' = [op |-> "fetch", chrom |-> "chr1", start |-> start,
                     end |-> end, bins |-> -1, missing |-> MissingArg,
                     oob |-> OobArg, summary |-> "mean", exact |-> FALSE]
         /\ ret' = fetch(bbi, file, "chr1", start, end, -1, MissingArg, OobArg,
                         "mean", FALSE, FALSE)
    /\ UNCHANGED <<it, file, bbi, alive, released, nullRead>>

RecordNext ==
    \/ FetchBases
    \/ Drop

SpecRecords ==
    RecordInit /\ [][RecordNext]_vars

(***************************************************************************)
(* Properties.                                                             *)
(***************************************************************************)
\* the last call is a fetch / fetch_intervals made on an open handle
OpenCall(op) ==
    call.op = op /\ bbi = "open"

CallSize ==
    bbiChromSize(file, call.chrom)

\* the end coordinate of the last call after "end < 0 means chromosome size"
CallEnd ==
    IF call.end < 0 THEN CallSize ELSE call.end

FullFetchReturned ==
    call.op = "fetch" /\ ret.kind = "return" /\ call.bins < 1

BinnedFetchReturned ==
    call.op = "fetch" /\ ret.kind = "return" /\ call.bins >= 1

\* the records of the fetched list that contain base p
Containing(ivs, p) ==
    {k \in 1..Len(ivs) : ivs[k].start <= p /\ p < ivs[k].end}

CallFetched ==
    fetchIntervals(file, call.chrom, Max(call.start, 0), Min(CallEnd, CallSize))

\* C1: a full-resolution fetch gives, at every base of the valid range, the
\* value of the fetched interval that contains the base, and the missing
\* fill where no fetched interval contains it.
C1_FullFetchValues ==
    FullFetchReturned =>
        \A p \in Max(call.start, 0)..(Min(CallEnd, CallSize) - 1) :
            /\ \A k \in Containing(CallFetched, p) :
                   ret.val[p - call.start + 1] = CallFetched[k].val
            /\ Containing(CallFetched, p) = {} =>
                   ret.val[p - call.start + 1] = call.missing

\* a full-resolution fetch that starts left of the chromosome and returns both
\* covered and uncovered bases
C1_Witness ==
    /\ FullFetchReturned
    /\ call.start < 0
    /\ \E p \in 0..(Min(CallEnd, CallSize) - 1) :
           Containing(CallFetched, p) # {}
    /\ \E p \in 0..(Min(CallEnd, CallSize) - 1) :
           Containing(CallFetched, p) = {}

\* C2: in a full-resolution fetch that reaches outside the chromosome, every
\* element outside [0, chromSize) is the oob fill, and no element inside
\* [0, chromSize) is written by the out-of-bounds pass.
C2_FullFetchOob ==
    (FullFetchReturned /\ (call.start < 0 \/ CallEnd > CallSize)) =>
        \A i \in 1..Len(ret.val) :
            LET pos == call.start + i - 1
            IN  /\ (pos < 0 \/ pos >= CallSize) => ret.val[i] = call.oob
                /\ (0 <= pos /\ pos < CallSize) =>
                       (i - 1) \notin ret.q.oobIdx /\ ret.val[i] # call.oob

\* a full-resolution fetch that reaches outside on both sides of a chromosome
\* with data
C2_Witness ==
    /\ FullFetchReturned
    /\ call.start < 0
    /\ CallEnd > CallSize
    /\ CallFetched # <<>>
    /\ ret.q.oobIdx # {}

\* the representative location of bin i of the last (binned) fetch
CallLoc(i) ==
    call.start + i * ((CallEnd - call.start) \div call.bins)

\* C3: in a summarized fetch, every bin whose representative location lies
\* outside [validStart, validEnd) holds the oob fill, whatever the aggregator
\* reported.  (Stated for queries of non-zero length.)
C3_BinnedOobAlways ==
    (BinnedFetchReturned /\ CallEnd > call.start) =>
        \A i \in 0..(call.bins - 1) :
            (CallLoc(i) < Max(call.start, 0) \/ CallLoc(i) >= Min(CallEnd, CallSize))
                => ret.val[i + 1] = call.oob

\* the span of bin i of the last (binned) fetch
SpanLo(i) ==
    call.start + ((CallEnd - call.start) * i) \div call.bins

SpanHi(i) ==
    call.start + ((CallEnd - call.start) * (i + 1)) \div call.bins

\* C4: in a summarized fetch that reaches outside the chromosome, every bin
\* whose span lies entirely outside [0, chromSize) holds the oob fill and
\* every bin whose span lies entirely inside is not written with it.
\* (Stated for the queries whose aggregator found data.)
C4_BinnedOobBySpan ==
    (BinnedFetchReturned /\ ret.q.result
         /\ (call.start < 0 \/ CallEnd > CallSize)) =>
        \A i \in 0..(call.bins - 1) :
            /\ (SpanHi(i) <= 0 \/ SpanLo(i) >= CallSize)
                   => ret.val[i + 1] = call.oob
            /\ (0 <= SpanLo(i) /\ SpanHi(i) <= CallSize)
                   => i \notin ret.q.oobIdx

\* C5: a fetch that returns gives an array of exactly bins elements when
\* bins >= 1 and of exactly end - start elements otherwise, end resolved and
\* start as requested.
C5_FetchLength ==
    (call.op = "fetch" /\ ret.kind = "return") =>
        Len(ret.val) = IF call.bins >= 1 THEN call.bins
                       ELSE CallEnd - call.start

\* a full-resolution fetch with a negative end and a negative start
C5_Witness ==
    /\ FullFetchReturned
    /\ call.end < 0
    /\ call.start < 0
    /\ Len(ret.val) = CallSize - call.start

QueryErrors ==
    {"ChromosomeNotFound", "StartExceedsChromosome", "NegativeLength"}

\* C6: fetch and fetch_intervals report the first failing check of: unknown
\* chromosome, start > chromSize, resolved end - start < 0; a negative start
\* and start = chromSize are no errors.
C6_ValidationOrder ==
    (OpenCall("fetch") \/ OpenCall("fetch_intervals")) =>
        /\ CallSize = 0 => ret = Raise("ChromosomeNotFound")
        /\ (CallSize # 0 /\ call.start > CallSize)
               => ret = Raise("StartExceedsChromosome")
        /\ (CallSize # 0 /\ call.start <= CallSize /\ CallEnd - call.start < 0)
               => ret = Raise("NegativeLength")
        /\ (CallSize # 0 /\ call.start <= CallSize /\ CallEnd - call.start >= 0)
               => ret.err \notin QueryErrors

\* a call that fails two checks and reports the earlier one
C6_Witness ==
    /\ OpenCall("fetch_intervals")
    /\ call.start > CallSize
    /\ CallSize # 0
    /\ CallEnd - call.start < 0
    /\ ret = Raise("StartExceedsChromosome")

\* C7: in fetch and fetch_intervals a negative end gives what end = chromSize
\* gives, and is resolved before the negative-length check.
C7_NegativeEnd ==
    /\ (OpenCall("fetch") /\ call.end < 0 /\ CallSize # 0
            /\ call.start <= CallSize) =>
           /\ \E propagate \in BOOLEAN :
                  ret = fetch(bbi, file, call.chrom, call.start, CallSize,
                              call.bins, call.missing, call.oob, call.summary,
                              call.exact, propagate)
           /\ ret.err # "NegativeLength"
    /\ (OpenCall("fetch_intervals") /\ call.end < 0 /\ CallSize # 0
            /\ call.start <= CallSize) =>
           /\ ret = fetch_intervals(bbi, file, call.chrom, call.start,
                                    CallSize, call.iterator)
           /\ ret.err # "NegativeLength"

\* a fetch with a negative end that returns data
C7_Witness ==
    /\ OpenCall("fetch")
    /\ call.end < 0
    /\ call.start > 0
    /\ ret.kind = "return"
    /\ \E i \in 1..Len(ret.val) : ret.val[i] \notin {call.missing, call.oob}

\* the rows with every negative end replaced by the size of the row's chromosome
ResolvedRows(rows) ==
    [i \in 1..Len(rows) |->
        [rows[i] EXCEPT !.end = IF rows[i].end < 0
                                THEN bbiChromSize(file, rows[i].chrom)
                                ELSE rows[i].end]]

\* what the caller sees of an operation: whether it raised, which error, and
\* the value returned
Outcome(r) ==
    <<r.kind, r.err, r.val>>

\* C8: stackup and fetch_summaries give, for a negative end, what they give
\* for end = the size of that query's chromosome.
C8_NegativeEndStackup ==
    /\ (OpenCall("fetch_summaries") /\ call.end < 0) =>
           Outcome(ret) = Outcome(fetch_summaries(bbi, file, call.chrom,
                                      call.start, CallSize, call.zoom))
    /\ OpenCall("stackup") =>
           \E propagate \in BOOLEAN :
               Outcome(ret) =
                   Outcome(stackup(bbi, file, ResolvedRows(call.rows),
                               call.bins, call.missing, call.oob, call.summary,
                               call.exact, propagate))

\* C9: every query on a closed handle raises the closed-resource error and
\* none reads through the released pointer.
C9_ClosedHandle ==
    (bbi = "NULL" /\ call.op \in QueryOps) =>
        ret = Raise("ResourceClosed") /\ ~nullRead

\* C10: close, __exit__ and deallocation release the file exactly once: the
\* handle is closed exactly when one release has happened, and after each of
\* them the handle is closed, one release has happened and nothing was raised.
C10_ReleasedOnce ==
    /\ released = IF bbi = "NULL" THEN 1 ELSE 0
    /\ call.op \in LifecycleOps =>
           bbi = "NULL" /\ released = 1 /\ ret.kind = "return"

\* leaving a with block whose body raised, on a handle closed before
C10_Witness ==
    /\ call.op = "__exit__"
    /\ call.raised
    /\ call.closedBefore
    /\ released = 1

\* the six summary names the interface documents
RecognizedSummaries ==
    {"mean", "max", "min", "cov", "std", "sum"}

\* the last call is a fetch on an open handle whose coordinates pass validation
ValidFetchCall ==
    /\ OpenCall("fetch")
    /\ CallSize # 0
    /\ call.start <= CallSize
    /\ CallEnd - call.start >= 0

\* row r names a known chromosome and a range that fetch would accept
RowValid(r) ==
    /\ bbiChromSize(file, r.chrom) # 0
    /\ r.start <= bbiChromSize(file, r.chrom)
    /\ r.end >= 0
    /\ r.end - r.start >= 0

\* the last call is a stackup on an open handle, all rows valid and equally long
ValidStackupCall ==
    /\ OpenCall("stackup")
    /\ \A i \in 1..Len(call.rows) : RowValid(call.rows[i])
    /\ \A i \in 1..Len(call.rows) :
           call.rows[i].end - call.rows[i].start
               = call.rows[1].end - call.rows[1].start

CheckedStackupCall ==
    /\ OpenCall("stackup")
    /\ \A i \in 1..Len(call.rows) :
           /\ bbiChromSize(file, call.rows[i].chrom) # 0
           /\ call.rows[i].start <= bbiChromSize(file, call.rows[i].chrom)

CallRowLengths ==
    {call.rows[i].end - call.rows[i].start : i \in 1..Len(call.rows)}

C13_UnequalLengths ==
    (OpenCall("stackup") /\ call.bins < 1 /\ Cardinality(CallRowLengths) > 1)
        => ret = Raise("UnequalWindowLengths")


\* what fetch gives for row i of the last stackup, with the stackup's arguments
RowFetch(i, propagate) ==
    fetch(bbi, file, call.rows[i].chrom, call.rows[i].start, call.rows[i].end,
          call.bins, call.missing, call.oob, call.summary, call.exact,
          propagate)

\* C14: stackup applies fetch's logic to each row; stated for bins < 1 and
\* rows that fetch accepts (known chromosome, start <= chromSize, end >= 0,
\* end >= start, equal lengths): fetch returns for each of them, so stackup
\* returns too and row i of the matrix is fetch's array for row i.
C14_StackupRowsAsFetch ==
    (ValidStackupCall /\ call.bins < 1) =>
        /\ ret.kind = "return"
        /\ \A i \in 1..Len(call.rows) :
               \E propagate \in BOOLEAN :
                   /\ RowFetch(i, propagate).kind = "return"
                   /\ ret.val[i] = RowFetch(i, propagate).val

\* stepSize and desiredReduction of the last (binned) fetch
CallStep ==
    (CallEnd - call.start) \div call.bins

CallDesired ==
    Max(0, CallStep \div 2)

\* the levels of the file whose reductionLevel is <= desiredReduction
Qualifying ==
    {k \in 1..Len(file.levels) : file.levels[k] <= CallDesired}

\* C15: a summarized query that may use zoom data asks for
\* desiredReduction = max(0, stepSize div 2) and uses the level with the
\* greatest reductionLevel <= desiredReduction, none when there is no such
\* level; a level used has 2 * reductionLevel <= stepSize.
C15_ZoomSelection ==
    (BinnedFetchReturned /\ ~call.exact) =>
        /\ Qualifying = {} => ret.q.level = 0
        /\ Qualifying # {} =>
               /\ ret.q.level \in Qualifying
               /\ \A k \in Qualifying :
                      file.levels[k] <= file.levels[ret.q.level]
        /\ ret.q.level # 0 => 2 * file.levels[ret.q.level] <= CallStep

\* the coarser of two qualifying levels is used
C15_Witness ==
    /\ BinnedFetchReturned
    /\ ~call.exact
    /\ Cardinality(Qualifying) = 2
    /\ ret.q.level = 2
    /\ file.levels[1] < file.levels[2]

\* C16: the zoom path is taken exactly when exact is false and a qualifying
\* level exists; with exact = TRUE the full-data path is taken and no zoom
\* level is read.
C16_PathSelection ==
    BinnedFetchReturned =>
        /\ ret.q.path \in {"zoom", "full_data"}
        /\ ret.q.path = "zoom" <=> (~call.exact /\ Qualifying # {})
        /\ ret.q.path = "zoom" <=> ret.q.level # 0
        /\ call.exact => ret.q.path = "full_data" /\ ret.q.level = 0

\* an exact query on a file that has a qualifying level
C16_Witness ==
    /\ BinnedFetchReturned
    /\ call.exact
    /\ Qualifying # {}
    /\ ret.q.path = "full_data"
    /\ ret.q.result

\* the last fetch's query asked again with one bin per base, the mean, exact
PerBaseMean(propagate) ==
    fetch(bbi, file, call.chrom, call.start, call.end, CallEnd - call.start,
          call.missing, call.oob, "mean", TRUE, propagate)

\* C17: a full-resolution fetch and the fetch of the same range with
\* bins = end - start, summary mean and exact agree at every base.
C17_ResolutionConsistency ==
    (FullFetchReturned /\ CallEnd - call.start >= 1) =>
        \E propagate \in BOOLEAN :
            /\ PerBaseMean(propagate).kind = "return"
            /\ PerBaseMean(propagate).val = ret.val

\* bin i (from 0) of the last binned fetch has its location in bounds
LocInBounds(i) ==
    /\ CallLoc(i) >= Max(call.start, 0)
    /\ CallLoc(i) < Min(CallEnd, CallSize)

\* C18: in a summarized query a bin whose summary element has validCount = 0
\* never gets a computed statistic: it holds a fill value, and the missing
\* fill when its location is in bounds.
C18_ValidityGating ==
    BinnedFetchReturned =>
        \A i \in 1..call.bins :
            ret.q.elements[i].validCount = 0 =>
                /\ ret.val[i] \in {call.missing, call.oob}
                /\ LocInBounds(i - 1) => ret.val[i] = call.missing

\* a query on the zoom path that found data and has an empty in-bounds bin
C18_Witness ==
    /\ BinnedFetchReturned
    /\ ret.q.path = "zoom"
    /\ ret.q.result
    /\ \E i \in 1..call.bins :
           /\ ret.q.elements[i].validCount = 0
           /\ LocInBounds(i - 1)
           /\ ret.val[i] = call.missing

\* the square of an emitted value
Squared(v) ==
    IF v[1] = "sqrt" THEN Frac(v[2], v[3]) ELSE FMul(v, v)

\* n * (sumSquares - sum*sum/n) of an element: n times the variance before
\* the division by n - 1; the square root of a negative variance is NaN
ScaledVariance(el) ==
    FAdd(FMul(Num(el.validCount), el.sumSquares),
         FMul(Num(-1), FMul(el.sumData, el.sumData)))

\* v is what the statistic named s gives for element el of the last fetch
IsStatistic(v, el, s) ==
    LET n == el.validCount
    IN  CASE s = "mean" -> FMul(v, Num(n)) = el.sumData
          [] s = "max"  -> v = el.maxVal
          [] s = "min"  -> v = el.minVal
          [] s = "sum"  -> v = el.sumData
          [] s = "cov"  -> FMul(v, Num(CallEnd - call.start))
                               = Num(call.bins * n)
          [] s = "std"  ->
                 IF ScaledVariance(el)[2] < 0 THEN v = NaN
                 ELSE /\ v[1] \in {"num", "sqrt"}
                      /\ v[2] >= 0
                      /\ FMul(Squared(v),
                              Num(n * (IF n > 1 THEN n - 1 ELSE 1)))
                             = ScaledVariance(el)
          [] OTHER -> FALSE

\* C19: a bin with validCount > 0 that is written holds sumData/validCount
\* for mean, maxVal for max, minVal for min, sumData for sum,
\* (nbins / (end - start)) * validCount for cov and, for std, the square root
\* of sumSquares - sum*sum/n, divided by n - 1 when n > 1.
C19_StatisticExtraction ==
    (BinnedFetchReturned /\ ret.q.result /\ ~ret.q.zerodiv) =>
        \A i \in 1..call.bins :
            (ret.q.elements[i].validCount > 0 /\ LocInBounds(i - 1)) =>
                IsStatistic(ret.val[i], ret.q.elements[i], call.summary)

\* a std query over a bin that mixes two values
C19_Witness ==
    /\ BinnedFetchReturned
    /\ call.summary = "std"
    /\ \E i \in 1..call.bins :
           /\ ret.q.elements[i].validCount > 1
           /\ LocInBounds(i - 1)
           /\ ret.val[i][1] = "sqrt"

\* the array of the last fetch is the one its arguments and the file determine
FetchDetermined ==
    (call.op = "fetch" /\ ret.kind = "return") =>
        \A propagate \in BOOLEAN :
            LET again == fetch(bbi, file, call.chrom, call.start, call.end,
                               call.bins, call.missing, call.oob,
                               call.summary, call.exact, propagate)
            IN  again.kind = "return" => again.val = ret.val

C21_TransientsReleased ==
    call.op \in QueryOps => ret.q.live = {}

\* the operations that hand a range to the interval fetcher or to the
\* zoom-record lookup
RangeOps ==
    {"fetch", "stackup", "fetch_intervals", "fetch_summaries"}

\* C22: fetch, stackup, fetch_intervals and fetch_summaries call the interval
\* fetcher and the zoom-record lookup only on an existing chromosome and with
\* a clipped range, 0 <= validStart <= validEnd <= chromSize.
C22_ClippedLookups ==
    call.op \in RangeOps =>
        \A k \in 1..Len(ret.q.lookups) :
            LET l == ret.q.lookups[k]
            IN  /\ l.size # 0
                /\ 0 <= l.start
                /\ l.start <= l.end
                /\ l.end <= l.size

\* the errors the validation of a query raises
ValidationErrors ==
    {"ChromosomeNotFound", "StartExceedsChromosome", "NegativeLength",
     "InvalidSummaryType", "UnequalWindowLengths"}

\* C23: a query that fails validation does not change the handle: a fetch
\* made on an open, unreleased handle that raises a validation error leaves
\* the handle open and the underlying resource not released.
C23_FailedQueryKeepsHandle ==
    (call.op = "fetch" /\ call.bbiBefore = "open"
        /\ ret.kind = "raise" /\ ret.err \in ValidationErrors) =>
        /\ bbi = "open"
        /\ released = call.releasedBefore

\* what the last fetch would give with the other value of exact
OtherPath(propagate) ==
    fetch(bbi, file, call.chrom, call.start, call.end, call.bins,
          call.missing, call.oob, call.summary, ~call.exact, propagate)

\* the boundaries of the bins of an array query: (baseStart, baseEnd) per bin
Boundaries(q) ==
    [i \in 1..Len(q.slices) |-> <<q.slices[i].lo, q.slices[i].baseEnd>>]

\* C24: the bins of a binned query partition [start, end): bin i ends at
\* start + (end - start) * (i + 1) div nbins and starts where bin i - 1 ended
\* (bin 0 at start), so the bins are contiguous, non-decreasing, cover
\* exactly [start, end), each is floor or ceiling of (end - start) / nbins
\* wide, and the zoom path and the full-data path compute the same
\* boundaries: on either path they are the ones start, end and nbins fix.
C24_BinPartition ==
    (BinnedFetchReturned /\ ret.q.slices # <<>>) =>
        LET sl    == ret.q.slices
            n     == call.bins
            span  == CallEnd - call.start
            floor == span \div n
            ceil  == floor + (IF span % n = 0 THEN 0 ELSE 1)
        IN  /\ Len(sl) = n
            /\ sl[1].lo = call.start
            /\ sl[n].baseEnd = CallEnd
            /\ \A i \in 1..n :
                   /\ sl[i].baseEnd = call.start + (span * i) \div n
                   /\ i > 1 => sl[i].lo = sl[i - 1].baseEnd
                   /\ sl[i].lo <= sl[i].baseEnd
                   /\ sl[i].baseEnd - sl[i].lo \in {floor, ceil}
            /\ Boundaries(ret.q) =
                   [i \in 1..n |-> <<call.start + (span * (i - 1)) \div n,
                                     call.start + (span * i) \div n>>]

\* an exact query over two bins, aggregated from the full data, whose
\* counterpart without exact reads a zoom level and runs its loop too
C24_Witness ==
    /\ BinnedFetchReturned
    /\ call.exact
    /\ call.bins = 2
    /\ ret.q.path = "full_data"
    /\ Len(ret.q.slices) = 2
    /\ OtherPath(FALSE).q.path = "zoom"
    /\ Boundaries(OtherPath(FALSE).q) = Boundaries(ret.q)

\* the record list the aggregator of the last binned fetch walked
CallRecords ==
    IF ret.q.path = "zoom"
    THEN bbiSummariesInRegion(file, file.levels[ret.q.level], call.chrom,
                              Max(call.start, 0), Min(CallEnd, CallSize))
    ELSE CallFetched

\* C25: the aggregation loops only move forward: bins are visited in order,
\* the record cursor never moves back, a record is passed over only when it
\* ends at or before the start of the current bin (so no record overlapping
\* the current or a later bin is dropped), and the slice of bin i starts at
\* the first record whose end is beyond baseStart[i].
C25_ForwardCursors ==
    (BinnedFetchReturned /\ ret.q.slices # <<>>) =>
        LET sl   == ret.q.slices
            recs == CallRecords
        IN  \A i \in 1..Len(sl) :
               /\ sl[i].from \in 1..(Len(recs) + 1)
               /\ i > 1 => /\ sl[i - 1].from <= sl[i].from
                           /\ sl[i - 1].lo <= sl[i].lo
               /\ \A j \in 1..(sl[i].from - 1) :
                      /\ recs[j].end <= sl[i].lo
                      /\ \A m \in i..Len(sl) :
                             rangeIntersection(recs[j].start, recs[j].end,
                                               sl[m].lo, sl[m].hi) <= 0
               /\ sl[i].from <= Len(recs) => recs[sl[i].from].end > sl[i].lo

\* a query of several bins during which the cursor passed over a record
C25_Witness ==
    /\ BinnedFetchReturned
    /\ Len(ret.q.slices) >= 2
    /\ ret.q.slices[1].from = 1
    /\ ret.q.slices[Len(ret.q.slices)].from > 1
    /\ ret.q.slices[Len(ret.q.slices)].from <= Len(CallRecords)

\* C26: on the full-data path a bin whose computed end equals its start
\* (more bins than bases) is sliced over [baseStart, baseStart + 1), so
\* every slice window is non-empty, while the next bin still starts at the
\* computed end; the loop makes exactly nbins slices and ends.
C26_DegenerateBins ==
    (BinnedFetchReturned /\ ret.q.path = "full_data" /\ ret.q.slices # <<>>) =>
        LET sl == ret.q.slices
        IN  /\ Len(sl) = call.bins
            /\ \A i \in 1..Len(sl) :
                   /\ sl[i].baseEnd = sl[i].lo => sl[i].hi = sl[i].lo + 1
                   /\ sl[i].baseEnd # sl[i].lo => sl[i].hi = sl[i].baseEnd
                   /\ sl[i].hi > sl[i].lo
                   /\ i < Len(sl) => sl[i + 1].lo = sl[i].baseEnd

\* a query with more bins than bases whose zero-width bin is followed by
\* another bin and took its value from the forced one-base window
C26_Witness ==
    /\ BinnedFetchReturned
    /\ ret.q.path = "full_data"
    /\ call.bins > CallEnd - call.start
    /\ \E i \in 1..(Len(ret.q.slices) - 1) :
           /\ ret.q.slices[i].baseEnd = ret.q.slices[i].lo
           /\ ret.q.slices[i].hi = ret.q.slices[i].lo + 1
           /\ ret.q.elements[i].validCount = 1

\* the array after writing every record of the list from k on, one by one
RECURSIVE WriteEach(_, _, _, _)
WriteEach(out, ivs, k, start) ==
    IF k > Len(ivs) THEN out
    ELSE WriteEach(SliceAssign(out, ivs[k].start - start, ivs[k].end - start,
                               ivs[k].val),
                   ivs, k + 1, start)

\* C27: merging runs of adjacent equal-valued records before writing is only
\* an optimization: the array of a full-resolution fetch is, outside the
\* out-of-bounds slices, the array that writing every fetched record on its
\* own gives, for every sorted non-overlapping list, the last pending run
\* and the empty list included.
C27_CoalescingIsOptimization ==
    FullFetchReturned =>
        LET each == WriteEach(Filled(Len(ret.val), call.missing), CallFetched,
                              1, call.start)
        IN  \A i \in 1..Len(ret.val) :
               ret.val[i] = IF (i - 1) \in ret.q.oobIdx THEN call.oob
                            ELSE each[i]

\* a fetch over three records: two merged into one run, then a record of
\* another value left pending at the end of the list
C27_Witness ==
    /\ FullFetchReturned
    /\ Len(CallFetched) = 3
    /\ CallFetched[2].start = CallFetched[1].end
    /\ CallFetched[2].val = CallFetched[1].val
    /\ CallFetched[3].val # CallFetched[2].val
    /\ ret.val[CallFetched[3].start - call.start + 1] = CallFetched[3].val
    /\ ret.val[CallFetched[1].start - call.start + 1] = CallFetched[1].val

\* C28: stackup completes all validation (every row's chromosome and start,
\* and the summary name) before it fetches or writes any row: a stackup that
\* raises a validation error has fetched no row.
C28_ValidateBeforeFetch ==
    (OpenCall("stackup") /\ ret.kind = "raise" /\ ret.err \in ValidationErrors)
        => ret.q.lookups = <<>>

\* what fetch gives for the arguments of the last best_zoom call, exact = false
ZoomFetch(propagate) ==
    fetch(bbi, file, call.chrom, call.start, call.end, call.bins,
          MissingArg, OobArg, "mean", FALSE, propagate)

\* C29: best_zoom agrees with the selection fetch(..., exact = false) makes
\* for the same arguments, a negative end included: it returns None exactly
\* when fetch aggregates from the full data, and otherwise the index of the
\* zoom level fetch reads.
C29_BestZoomAgrees ==
    (OpenCall("best_zoom") /\ call.bins >= 1 /\ ret.kind = "return") =>
        \A propagate \in BOOLEAN :
            LET fq == ZoomFetch(propagate)
            IN  fq.kind = "return" =>
                    /\ ret.val = <<>> <=> fq.q.path = "full_data"
                    /\ ret.val # <<>> =>
                           file.levels[ret.val[1] + 1] = file.levels[fq.q.level]

\* the list the iterator of the last next() was created over
IterFetched ==
    [k \in 1..Len(IteratorRecords(file, it.chrom, it.valid_start, it.valid_end))
        |-> IntervalTuple(it, IteratorRecords(file, it.chrom, it.valid_start,
                                              it.valid_end)[k])]

\* C30: an interval iterator yields each fetched record exactly once, in the
\* order of the fetched list; once the list is exhausted every further next()
\* raises StopIteration; and after close() an iterator made before it goes
\* on yielding its remaining records without reading the closed handle.
C30_IteratorYields ==
    call.op = "next" =>
        /\ ~nullRead
        /\ ret.kind # "crash"
        /\ Len(it.yielded) <= Len(IterFetched)
        /\ it.yielded = SubSeq(IterFetched, 1, Len(it.yielded))
        /\ ret.kind = "return" =>
               /\ Len(it.yielded) = Len(call.before.yielded) + 1
               /\ ret.val = IterFetched[Len(it.yielded)]
        /\ ret.kind = "raise" =>
               /\ ret.err = "StopIteration"
               /\ it.yielded = IterFetched
               /\ it.yielded = call.before.yielded
        /\ call.stoppedBefore => ret = Raise("StopIteration")

\* the second record of a list of two, yielded after the file was closed
C30_Witness ==
    /\ call.op = "next"
    /\ call.closedBefore
    /\ ret.kind = "return"
    /\ Len(it.yielded) = 2
    /\ it.yielded[1] # it.yielded[2]

====
